---- MODULE Spec2Model ----
(***************************************************************************)
(* Model of night_sky.py: the catalogue loader read_stars, the renderer    *)
(* plot_sky and the command interface main.                                *)
(*                                                                         *)
(* A behaviour is one invocation: either a run of main (entry = "main"),   *)
(* or a direct call of plot_sky with caller-chosen arguments               *)
(* (entry = "plot_sky").  The environment (contents of the catalogue file, *)
(* writability of the output path) is chosen nondeterministically.         *)
(*                                                                         *)
(* Texts (CSV fields) are sequences of one-character strings.  Floats are  *)
(* records: [k |-> "fin", v |-> n] an (integral) finite value,             *)
(* [k |-> "nan"] a NaN, [k |-> "big", v |-> s] a finite value of sign s    *)
(* whose magnitude is at least 10^BigExp (its square overflows a double).  *)
(***************************************************************************)
EXTENDS Integers, Sequences, FiniteSets, TLC

(* ---------------------------- bounds ----------------------------------- *)
MaxArgs == 3
MaxRows == 2
MaxStars == 2

(* ------------------------- float arithmetic ---------------------------- *)
\* smallest decimal exponent whose square is out of range for a double
BigExp == 155

Fin(n) == [k |-> "fin", v |-> n]
NaN == [k |-> "nan", v |-> 0]
Big(s) == [k |-> "big", v |-> s]

\* x * 2
FMul2(x) == IF x.k = "fin" THEN Fin(2 * x.v) ELSE x

\* 10 - x
FSub10(x) ==
  IF x.k = "fin" THEN Fin(10 - x.v)
  ELSE IF x.k = "big" THEN Big(0 - x.v) ELSE x

\* x > 1 ; every comparison with a NaN is false
FGt1(x) ==
  IF x.k = "fin" THEN x.v > 1
  ELSE IF x.k = "big" THEN x.v = 1 ELSE FALSE

\* Python's max(1, x): x replaces 1 only when x > 1
PyMax1(x) == IF FGt1(x) THEN x ELSE Fin(1)

\* x ** 2 ; raises OverflowError when the result is out of range
FSquare(x) ==
  IF x.k = "fin" THEN [ok |-> TRUE, val |-> Fin(x.v * x.v)]
  ELSE IF x.k = "big" THEN [ok |-> FALSE, val |-> x]
  ELSE [ok |-> TRUE, val |-> x]

\* x >= 1, on the values a size can take
FGe1(x) ==
  IF x.k = "fin" THEN x.v >= 1
  ELSE IF x.k = "big" THEN x.v = 1 ELSE FALSE

MarkerSizeNoClamp(mag) == FSquare(FSub10(FMul2(mag)))

\* max(1, 10 - s.mag * 2) ** 2
MarkerSize(mag) == FSquare(PyMax1(FSub10(FMul2(mag))))

(* --------------------------- float(text) ------------------------------- *)
Digits == {"0", "1", "2", "3", "4", "5", "6", "7", "8", "9"}

DigitVal(c) ==
  CASE c = "0" -> 0 [] c = "1" -> 1 [] c = "2" -> 2 [] c = "3" -> 3
    [] c = "4" -> 4 [] c = "5" -> 5 [] c = "6" -> 6 [] c = "7" -> 7
    [] c = "8" -> 8 [] c = "9" -> 9

IsDigits(t) == Len(t) > 0 /\ \A j \in 1..Len(t) : t[j] \in Digits

RECURSIVE DigitsVal(_)
DigitsVal(t) ==
  IF t = <<>> THEN 0
  ELSE 10 * DigitsVal(SubSeq(t, 1, Len(t) - 1)) + DigitVal(t[Len(t)])

RECURSIVE Pow10(_)
Pow10(e) == IF e = 0 THEN 1 ELSE 10 * Pow10(e - 1)

\* Position of the first "e" of t, 0 when there is none.
EPos(t) ==
  IF \E j \in 1..Len(t) : t[j] = "e"
  THEN CHOOSE j \in 1..Len(t) : t[j] = "e" /\ \A m \in 1..(j - 1) : t[m] # "e"
  ELSE 0

\* float(t) on the texts  [sign] digits [e digits]  and  [sign] nan ;
\* any other text over the model's alphabet raises ValueError (ok = FALSE).
\* Exponents stay below 309, so no text denotes an infinity.
ParseFloat(t) ==
  LET signed == Len(t) > 0 /\ t[1] \in {"-", "+"}
      sgn == IF signed /\ t[1] = "-" THEN 0 - 1 ELSE 1
      body == IF signed THEN Tail(t) ELSE t
      ep == EPos(body)
      mant == IF ep = 0 THEN body ELSE SubSeq(body, 1, ep - 1)
      expo == IF ep = 0 THEN <<>> ELSE SubSeq(body, ep + 1, Len(body))
      wellFormed == IsDigits(mant) /\ (ep = 0 \/ IsDigits(expo))
      m == DigitsVal(mant)
      e == DigitsVal(expo)
  IN IF body = <<"n", "a", "n">> THEN [ok |-> TRUE, val |-> NaN]
     ELSE IF ~wellFormed THEN [ok |-> FALSE, val |-> NaN]
     ELSE IF m = 0 THEN [ok |-> TRUE, val |-> Fin(0)]
     ELSE IF e >= BigExp THEN [ok |-> TRUE, val |-> Big(sgn)]
     ELSE [ok |-> TRUE, val |-> Fin(sgn * m * Pow10(e))]

(* ------------------------------ THEMES --------------------------------- *)
THEMES ==
  [t \in {"dark", "light"} |->
     IF t = "dark" THEN [bg |-> "black", fg |-> "white"]
     ELSE [bg |-> "#f2f2f2", fg |-> "#111111"]]

ThemeGetNoDefault(theme) ==
  IF theme \in DOMAIN THEMES THEN THEMES[theme] ELSE THEMES["light"]

\* THEMES.get(theme, THEMES["dark"])
ThemeGet(theme) ==
  IF theme \in DOMAIN THEMES THEN THEMES[theme] ELSE THEMES["dark"]

NoStyle == [bg |-> "", fg |-> ""]

(* -------------------------- csv.DictReader ----------------------------- *)
\* One row of the reader as a dict: key -> [present, text].  A key of the
\* header beyond the end of a short row is present = FALSE (restval None);
\* fields beyond the header are not reachable by name.
RowDict(header, row) ==
  [key \in {header[j] : j \in 1..Len(header)} |->
     LET p == CHOOSE j \in 1..Len(header) :
                header[j] = key /\ \A m \in (j + 1)..Len(header) : header[m] # key
     IN IF p <= Len(row) THEN [present |-> TRUE, text |-> row[p]]
        ELSE [present |-> FALSE, text |-> <<>>]]

NoStar == [name |-> <<>>, ra_deg |-> NaN, dec_deg |-> NaN, mag |-> NaN]

FieldOrder == <<"name", "ra_deg", "dec_deg", "mag">>

\* The outcome of evaluating one field of Star(...) from the dict d:
\* "KeyError" (row[key] on a missing column), "TypeError" (float(None)),
\* "ValueError" (float of an unparsable text) or "ok".
FieldOutcome(d, key) ==
  IF key \notin DOMAIN d THEN "KeyError"
  ELSE IF key = "name" THEN "ok"
  ELSE IF ~d[key].present THEN "TypeError"
  ELSE IF ~ParseFloat(d[key].text).ok THEN "ValueError"
  ELSE "ok"

\* Star(name=row["name"], ra_deg=float(row["ra_deg"]), ...): the arguments
\* are evaluated in order, the first failure is the exception raised.
MakeStar(header, row) ==
  LET d == RowDict(header, row)
      bad == {j \in 1..4 : FieldOutcome(d, FieldOrder[j]) # "ok"}
  IN IF bad # {}
     THEN [err |-> FieldOutcome(d, FieldOrder[CHOOSE j \in bad : \A m \in bad : j <= m]),
           star |-> NoStar]
     ELSE [err |-> "none",
           star |-> [name |-> d["name"].text,
                     ra_deg |-> ParseFloat(d["ra_deg"].text).val,
                     dec_deg |-> ParseFloat(d["dec_deg"].text).val,
                     mag |-> ParseFloat(d["mag"].text).val]]

AppendFront(s, e) == <<e>> \o s

\* stars.append(...)
ListAppend(s, e) == Append(s, e)

(* ------------------------------ argparse ------------------------------- *)
\* sorted(THEMES)
ThemeChoices == DOMAIN THEMES

AnyChoice(v) == TRUE

\* choices=sorted(THEMES)
ChoiceOk(v) == v \in ThemeChoices

IsOption(tok) == tok \in {"-h", "--theme", "--show-labels"}

\* parser.parse_args() over the tokens av from position p on, with the
\* namespace ns so far and the flag extras (a stray positional was seen).
\* Options are consumed left to right: -h prints the help and exits 0 at
\* once, a --theme without a value or with a value outside the choices is
\* a usage error (exit 2) at once, stray positionals are reported (exit 2)
\* only after the last token.
RECURSIVE ParseFrom(_, _, _, _)
ParseFrom(av, p, ns, extras) ==
  IF p > Len(av)
  THEN IF extras THEN [kind |-> "error", ns |-> ns] ELSE [kind |-> "ok", ns |-> ns]
  ELSE IF av[p] = "-h" THEN [kind |-> "help", ns |-> ns]
  ELSE IF av[p] = "--show-labels"
       THEN ParseFrom(av, p + 1, [ns EXCEPT !.show_labels = TRUE], extras)
  ELSE IF av[p] = "--theme"
       THEN IF p + 1 > Len(av) \/ IsOption(av[p + 1])
            THEN [kind |-> "error", ns |-> ns]
            ELSE IF ~ChoiceOk(av[p + 1]) THEN [kind |-> "error", ns |-> ns]
            ELSE ParseFrom(av, p + 2, [ns EXCEPT !.theme = av[p + 1]], extras)
  ELSE ParseFrom(av, p + 1, ns, TRUE)

DefaultArgs == [theme |-> "dark", show_labels |-> FALSE]

ParseArgs(av) == ParseFrom(av, 1, DefaultArgs, FALSE)

(* ------------------------- the input sets ------------------------------ *)
SeqsUpTo(S, n) == UNION {[1..m -> S] : m \in 0..n}

Tokens == {"-h", "--show-labels", "--theme", "dark", "light", "neon"}

Argvs == SeqsUpTo(Tokens, MaxArgs)

ThemeNames == {"dark", "light", "neon"}

HeaderFull == <<"name", "ra_deg", "dec_deg", "mag">>
HeaderPermuted == <<"mag", "name", "ra_deg", "dec_deg", "notes">>
HeaderNoMag == <<"name", "ra_deg", "dec_deg">>
HeaderNoName == <<"ra_deg", "dec_deg", "mag">>

Headers == {HeaderFull, HeaderPermuted, HeaderNoMag, HeaderNoName}

RowA == << <<"7">>, <<"1", "2">>, <<"-", "3">>, <<"5">> >>
RowB == << <<"4">>, <<"2", "e", "1">>, <<"0">>, <<"-", "2">> >>
RowHuge == << <<"9">>, <<"3">>, <<"n", "a", "n">>, <<"-", "1", "e", "2", "0", "0">> >>
RowAbc == << <<"1">>, <<"a", "b", "c">>, <<"1">>, <<"1">> >>
RowEmptyMag == << <<"2">>, <<"3">>, <<"4">>, <<>> >>
RowShort == << <<"6">>, <<"3">> >>
RowLong == << <<"8">>, <<"1">>, <<"2">>, <<"9">>, <<"x">> >>
RowBlank == << >>

Rows == {RowA, RowB, RowHuge, RowAbc, RowEmptyMag, RowShort, RowLong, RowBlank}

Files == {[exists |-> TRUE, header |-> h, rows |-> rs] :
            h \in Headers, rs \in SeqsUpTo(Rows, MaxRows)}

NoFile == [exists |-> FALSE, header |-> <<>>, rows |-> <<>>]

MagSet == {Fin(0 - 2), Fin(0), Fin(5), Fin(7), NaN, Big(0 - 1), Big(1)}

StarSet == {[name |-> <<"s">>, ra_deg |-> Fin(12), dec_deg |-> Fin(0 - 3), mag |-> m] :
              m \in MagSet}

StarLists == SeqsUpTo(StarSet, MaxStars)

(* ------------------------------ state ---------------------------------- *)
VARIABLES
  entry,          \* "main": a run of main() ; "plot_sky": a direct call
  argv,           \* the command line (sys.argv[1:])
  args,           \* the parsed namespace; for a direct call, its arguments
  pc,             \* position of the run
  csv,            \* the catalogue file found at args.data
  handleOpen,     \* read_stars holds the file handle
  i,              \* number of rows the reader has consumed
  stars,          \* read_stars' local list
  result,         \* the list read_stars returned / plot_sky was given
  loadReturned,   \* read_stars returned to main
  err,            \* the exception that propagated, "none" if none
  errIn,          \* the component it was raised in
  figHeld,        \* the figure of line 52 is open in pyplot
  style,          \* the resolved theme
  markers,        \* what ax.scatter drew
  labels,         \* what ax.text drew
  outputWritable, \* the output path can be written
  outputWritten,  \* the image exists at the output path
  fileOpened,     \* the catalogue file was opened
  exitStatus,     \* the process' exit status, -1 while it runs
  nParse, nLoad, nRender

vars == <<entry, argv, args, pc, csv, handleOpen, i, stars, result, loadReturned,
          err, errIn, figHeld, style, markers, labels, outputWritable,
          outputWritten, fileOpened, exitStatus, nParse, nLoad, nRender>>

loadVars == <<csv, handleOpen, i, stars, result, loadReturned, fileOpened, nLoad>>
plotVars == <<figHeld, style, markers, labels, outputWritten, nRender>>

Init ==
  /\ entry \in {"main", "plot_sky"}
  /\ outputWritable \in BOOLEAN
  /\ \/ /\ entry = "main"
        /\ argv \in Argvs
        /\ args = DefaultArgs
        /\ result = <<>>
        /\ pc = "parse"
     \/ /\ entry = "plot_sky"
        /\ argv = <<>>
        /\ args \in [theme : ThemeNames, show_labels : BOOLEAN]
        /\ result \in StarLists
        /\ pc = "plot_begin"
  /\ csv = NoFile
  /\ handleOpen = FALSE
  /\ i = 0
  /\ stars = <<>>
  /\ loadReturned = FALSE
  /\ err = "none"
  /\ errIn = "none"
  /\ figHeld = FALSE
  /\ style = NoStyle
  /\ markers = <<>>
  /\ labels = <<>>
  /\ outputWritten = FALSE
  /\ fileOpened = FALSE
  /\ exitStatus = 0 - 1
  /\ nParse = 0
  /\ nLoad = 0
  /\ nRender = 0

(* ------------------------------- main ---------------------------------- *)
\* args = parser.parse_args()
Parse ==
  /\ pc = "parse"
  /\ LET r == ParseArgs(argv)
     IN /\ args' = r.ns
        /\ pc' = IF r.kind = "ok" THEN "read_open" ELSE "exited"
        /\ exitStatus' = IF r.kind = "ok" THEN exitStatus
                         ELSE IF r.kind = "help" THEN 0 ELSE 2
        /\ err' = IF r.kind = "error" THEN "usage" ELSE err
        /\ errIn' = IF r.kind = "error" THEN "parse" ELSE errIn
  /\ nParse' = nParse + 1
  /\ UNCHANGED <<entry, argv, outputWritable>>
  /\ UNCHANGED loadVars
  /\ UNCHANGED plotVars

(* ---------------------------- read_stars ------------------------------- *)
\* stars = [] ; with path.open(newline="") as handle
ReadOpen ==
  /\ pc = "read_open"
  /\ nLoad' = nLoad + 1
  /\ stars' = <<>>
  /\ \E f \in Files \cup {NoFile} :
       /\ csv' = f
       /\ IF f.exists
          THEN /\ handleOpen' = TRUE
               /\ fileOpened' = TRUE
               /\ pc' = "read_rows"
               /\ UNCHANGED <<err, errIn>>
          ELSE /\ err' = "FileNotFoundError"
               /\ errIn' = "load"
               /\ pc' = "raised"
               /\ UNCHANGED <<handleOpen, fileOpened>>
  /\ UNCHANGED <<entry, argv, args, i, result, loadReturned, outputWritable, exitStatus, nParse>>
  /\ UNCHANGED plotVars

ReadRowSkipBad ==
  /\ pc = "read_rows"
  /\ i < Len(csv.rows)
  /\ LET row == csv.rows[i + 1]
         r == MakeStar(csv.header, row)
     IN stars' = IF row # <<>> /\ r.err = "none" THEN ListAppend(stars, r.star) ELSE stars
  /\ i' = i + 1
  /\ UNCHANGED <<entry, argv, args, pc, csv, handleOpen, result, loadReturned, err, errIn,
                 outputWritable, fileOpened, exitStatus, nParse, nLoad>>
  /\ UNCHANGED plotVars

\* One round of  for row in reader: stars.append(Star(...)) .  The reader
\* passes over a blank line; an exception leaves the with-block (closing
\* the handle) and propagates, the local list is lost.
ReadRow ==
  /\ pc = "read_rows"
  /\ i < Len(csv.rows)
  /\ LET row == csv.rows[i + 1]
         r == MakeStar(csv.header, row)
     IN IF row = <<>>
        THEN UNCHANGED <<stars, err, errIn, handleOpen, pc>>
        ELSE IF r.err = "none"
        THEN /\ stars' = ListAppend(stars, r.star)
             /\ UNCHANGED <<err, errIn, handleOpen, pc>>
        ELSE /\ err' = r.err
             /\ errIn' = "load"
             /\ handleOpen' = FALSE
             /\ stars' = <<>>
             /\ pc' = "raised"
  /\ i' = i + 1
  /\ UNCHANGED <<entry, argv, args, csv, result, loadReturned, outputWritable,
                 fileOpened, exitStatus, nParse, nLoad>>
  /\ UNCHANGED plotVars

\* the reader is exhausted: leave the with-block, return stars
ReadReturn ==
  /\ pc = "read_rows"
  /\ i >= Len(csv.rows)
  /\ handleOpen' = FALSE
  /\ result' = stars
  /\ loadReturned' = TRUE
  /\ pc' = "plot_begin"
  /\ UNCHANGED <<entry, argv, args, csv, i, stars, err, errIn, outputWritable,
                 fileOpened, exitStatus, nParse, nLoad>>
  /\ UNCHANGED plotVars

(* ----------------------------- plot_sky -------------------------------- *)
\* style = THEMES.get(...) ; fig, ax = plt.subplots(...) ; background, axis
PlotBegin ==
  /\ pc = "plot_begin"
  /\ style' = ThemeGet(args.theme)
  /\ figHeld' = TRUE
  /\ nRender' = nRender + 1
  /\ pc' = "plot_scatter"
  /\ UNCHANGED <<entry, argv, args, err, errIn, markers, labels, outputWritable,
                 outputWritten, exitStatus, nParse>>
  /\ UNCHANGED loadVars

PlotScatterNonEmpty ==
  /\ pc = "plot_scatter"
  /\ IF result = <<>>
     THEN /\ err' = "ValueError"
          /\ errIn' = "render"
          /\ pc' = "raised"
          /\ UNCHANGED markers
     ELSE /\ markers' = [j \in 1..Len(result) |->
                           [x |-> result[j].ra_deg, y |-> result[j].dec_deg,
                            s |-> MarkerSize(result[j].mag).val]]
          /\ pc' = "plot_labels"
          /\ UNCHANGED <<err, errIn>>
  /\ UNCHANGED <<entry, argv, args, figHeld, style, labels, outputWritable,
                 outputWritten, exitStatus, nParse, nRender>>
  /\ UNCHANGED loadVars

\* ra, dec, sizes = ... ; ax.scatter(ra, dec, s=sizes, ...)
PlotScatter ==
  /\ pc = "plot_scatter"
  /\ LET sz == [j \in 1..Len(result) |-> MarkerSize(result[j].mag)]
     IN IF \E j \in 1..Len(result) : ~sz[j].ok
        THEN /\ err' = "OverflowError"
             /\ errIn' = "render"
             /\ pc' = "raised"
             /\ UNCHANGED markers
        ELSE /\ markers' = [j \in 1..Len(result) |->
                              [x |-> result[j].ra_deg, y |-> result[j].dec_deg,
                               s |-> sz[j].val]]
             /\ pc' = "plot_labels"
             /\ UNCHANGED <<err, errIn>>
  /\ UNCHANGED <<entry, argv, args, figHeld, style, labels, outputWritable,
                 outputWritten, exitStatus, nParse, nRender>>
  /\ UNCHANGED loadVars

\* if show_labels: ax.text(...) for every star ; axis labels, title, grid
PlotLabels ==
  /\ pc = "plot_labels"
  /\ labels' = IF args.show_labels
               THEN [j \in 1..Len(result) |->
                       [x |-> result[j].ra_deg, y |-> result[j].dec_deg,
                        text |-> result[j].name]]
               ELSE <<>>
  /\ pc' = "plot_save"
  /\ UNCHANGED <<entry, argv, args, err, errIn, figHeld, style, markers, outputWritable,
                 outputWritten, exitStatus, nParse, nRender>>
  /\ UNCHANGED loadVars

\* fig.savefig(output, ...)
PlotSave ==
  /\ pc = "plot_save"
  /\ IF outputWritable
     THEN /\ outputWritten' = TRUE
          /\ pc' = "plot_close"
          /\ UNCHANGED <<err, errIn>>
     ELSE /\ err' = "OSError"
          /\ errIn' = "render"
          /\ pc' = "raised"
          /\ UNCHANGED outputWritten
  /\ UNCHANGED <<entry, argv, args, figHeld, style, markers, labels, outputWritable,
                 exitStatus, nParse, nRender>>
  /\ UNCHANGED loadVars

\* plt.close(fig)
PlotClose ==
  /\ pc = "plot_close"
  /\ figHeld' = FALSE
  /\ pc' = "returned"
  /\ UNCHANGED <<entry, argv, args, err, errIn, style, markers, labels, outputWritable,
                 outputWritten, exitStatus, nParse, nRender>>
  /\ UNCHANGED loadVars

(* ------------------------- the end of the run --------------------------- *)
ExitRetry ==
  /\ entry = "main"
  /\ pc \in {"returned", "raised"}
  /\ IF pc = "raised" /\ errIn = "load" /\ nLoad < 2
     THEN /\ pc' = "read_open"
          /\ UNCHANGED exitStatus
     ELSE /\ exitStatus' = IF pc = "returned" THEN 0 ELSE 1
          /\ pc' = "exited"
  /\ UNCHANGED <<entry, argv, args, err, errIn, outputWritable, nParse>>
  /\ UNCHANGED loadVars
  /\ UNCHANGED plotVars

\* main returns (status 0) or an uncaught exception ends the interpreter
\* (traceback on stderr, status 1)
Exit ==
  /\ entry = "main"
  /\ pc \in {"returned", "raised"}
  /\ exitStatus' = IF pc = "returned" THEN 0 ELSE 1
  /\ pc' = "exited"
  /\ UNCHANGED <<entry, argv, args, err, errIn, outputWritable, nParse>>
  /\ UNCHANGED loadVars
  /\ UNCHANGED plotVars

Next ==
  \/ Parse
  \/ ReadOpen
  \/ ReadRow
  \/ ReadReturn
  \/ PlotBegin
  \/ PlotScatter
  \/ PlotLabels
  \/ PlotSave
  \/ PlotClose
  \/ Exit

Spec == Init /\ [][Next]_vars

(* ======================= properties of the program ====================== *)
Required == {"name", "ra_deg", "dec_deg", "mag"}
NumericKeys == {"ra_deg", "dec_deg", "mag"}

ColumnsOf(header) == {header[j] : j \in 1..Len(header)}

\* the position of column key in a header without repeated names
ColumnPos(header, key) == CHOOSE j \in 1..Len(header) : header[j] = key

MissingColumn == csv.exists /\ ~(Required \subseteq ColumnsOf(csv.header))

\* what float() makes of the numeric texts of the catalogue rows
TextValue(t) ==
  CASE t = <<"0">> -> Fin(0)
    [] t = <<"1">> -> Fin(1)
    [] t = <<"2">> -> Fin(2)
    [] t = <<"3">> -> Fin(3)
    [] t = <<"4">> -> Fin(4)
    [] t = <<"5">> -> Fin(5)
    [] t = <<"6">> -> Fin(6)
    [] t = <<"7">> -> Fin(7)
    [] t = <<"8">> -> Fin(8)
    [] t = <<"9">> -> Fin(9)
    [] t = <<"1", "2">> -> Fin(12)
    [] t = <<"-", "3">> -> Fin(0 - 3)
    [] t = <<"-", "2">> -> Fin(0 - 2)
    [] t = <<"2", "e", "1">> -> Fin(20)
    [] t = <<"n", "a", "n">> -> NaN
    [] t = <<"-", "1", "e", "2", "0", "0">> -> Big(0 - 1)

\* the texts of the catalogue rows that float() rejects
BadTexts == {<<"a", "b", "c">>, <<"x">>, <<>>}

\* row j of the file has a numeric field that is there and is no float
BadRow(j) ==
  \E key \in NumericKeys \cap ColumnsOf(csv.header) :
    /\ ColumnPos(csv.header, key) <= Len(csv.rows[j])
    /\ csv.rows[j][ColumnPos(csv.header, key)] \in BadTexts

\* row j of the file is a data row that ends before a numeric column
ShortRow(j) ==
  /\ csv.rows[j] # <<>>
  /\ \E key \in NumericKeys \cap ColumnsOf(csv.header) :
       ColumnPos(csv.header, key) > Len(csv.rows[j])

HasBadRow == csv.exists /\ \E j \in 1..Len(csv.rows) : BadRow(j)

FirstBadRow == CHOOSE j \in 1..Len(csv.rows) : BadRow(j) /\ \A m \in 1..(j - 1) : ~BadRow(m)

Terminal == pc \in {"returned", "raised", "exited"}

\* render reached its save step: it ended by returning or by the save failing
SaveAttempted == nRender > 0 /\ Terminal /\ err \in {"none", "OSError"}

\* C1: when render ends after its save step, the figure acquired at its
\* start is no longer held, whether the save succeeded or failed.
C1_FigureReleased == SaveAttempted => ~figHeld

\* C2: a catalogue whose header lacks a required column makes the load fail
\* with a schema (key) error, whatever the number of data rows: no star list
\* is returned and rendering is never attempted.
C2_SchemaError ==
  MissingColumn =>
    /\ ~loadReturned
    /\ nRender = 0
    /\ (Terminal => (err = "KeyError" /\ errIn = "load"))

ValidCsv ==
  /\ csv.exists
  /\ ~MissingColumn
  /\ \A j \in 1..Len(csv.rows) : ~BadRow(j) /\ ~ShortRow(j)

IsDataRow(row) == row # <<>>

DataRows == SelectSeq(csv.rows, IsDataRow)

ExpectedStar(header, row) ==
  [name |-> row[ColumnPos(header, "name")],
   ra_deg |-> TextValue(row[ColumnPos(header, "ra_deg")]),
   dec_deg |-> TextValue(row[ColumnPos(header, "dec_deg")]),
   mag |-> TextValue(row[ColumnPos(header, "mag")])]

\* C4: from a valid catalogue with N data rows the load returns exactly N
\* stars, the j-th built from the j-th data row.
C4_AllRowsInOrder ==
  (loadReturned /\ ValidCsv) =>
    /\ Len(result) = Len(DataRows)
    /\ \A j \in 1..Len(DataRows) : result[j] = ExpectedStar(csv.header, DataRows[j])

C4_Witness ==
  /\ loadReturned
  /\ ValidCsv
  /\ csv.header = HeaderPermuted
  /\ csv.rows = <<RowA, RowHuge>>
  /\ Len(result) = 2
  /\ result[1].mag = Fin(7)
  /\ result[2].dec_deg = Big(0 - 1)

\* C5: every marker size the renderer computes is at least 1, for faint
\* (large) and for bright (negative) magnitudes alike.
C5_SizeAtLeastOne == \A j \in 1..Len(markers) : FGe1(markers[j].s)

C5_Witness ==
  /\ Len(markers) = 2
  /\ result[1].mag = Fin(7)
  /\ markers[1].s = Fin(1)
  /\ result[2].mag = Fin(0 - 2)
  /\ markers[2].s = Fin(196)

\* position p of the command line gives --theme a value outside the registry
BogusThemeAt(p) ==
  /\ p < Len(argv)
  /\ argv[p] = "--theme"
  /\ ~IsOption(argv[p + 1])
  /\ argv[p + 1] \notin {"dark", "light"}

HasBogusTheme == entry = "main" /\ \E p \in 1..Len(argv) : BogusThemeAt(p)

\* C6 as stated: an unregistered --theme value ends the run with a usage
\* error during parsing, before the catalogue is opened or an image written.
C6_UsageError ==
  HasBogusTheme =>
    /\ nLoad = 0
    /\ ~fileOpened
    /\ ~outputWritten
    /\ pc = "exited" => exitStatus = 2

\* C6 as amended: an unregistered --theme value ends the run during parsing,
\* before the catalogue is opened or an image written, with a usage error
\* (status 2) unless a help option stands before it on the command line, in
\* which case the help is printed and the status is 0.
C6_RejectedAtParse ==
  HasBogusTheme =>
    /\ nLoad = 0
    /\ ~fileOpened
    /\ nRender = 0
    /\ ~outputWritten
    /\ pc \in {"parse", "exited"}
    /\ pc = "exited" =>
         \/ exitStatus = 2 /\ err = "usage"
         \/ /\ exitStatus = 0
            /\ \E h \in 1..Len(argv) :
                 argv[h] = "-h" /\ \A p \in 1..Len(argv) : BogusThemeAt(p) => h < p

C6_Witness ==
  /\ HasBogusTheme
  /\ argv = <<"--show-labels", "--theme", "neon">>
  /\ pc = "exited"
  /\ exitStatus = 2

\* C7: the renderer resolves every theme name without an error: a registered
\* name to its own colours, "light" and "dark" to different ones, any other
\* name to the colours of "dark".
C7_ThemeResolution ==
  /\ THEMES["light"] # THEMES["dark"]
  /\ nRender > 0 =>
       /\ pc = "plot_scatter" => err = "none"
       /\ args.theme = "dark" => style = [bg |-> "black", fg |-> "white"]
       /\ args.theme = "light" => style = [bg |-> "#f2f2f2", fg |-> "#111111"]
       /\ args.theme \notin {"dark", "light"} => style = [bg |-> "black", fg |-> "white"]

C7_Witness ==
  /\ nRender > 0
  /\ args.theme = "neon"
  /\ style = [bg |-> "black", fg |-> "white"]
  /\ pc = "returned"

\* C8, for the runs whose arguments were accepted: the exit status is zero
\* exactly when parsing, load and render all succeeded; a missing file, a
\* missing column, an unparsable number or an unwritable output path ends
\* the run with a non-zero status.
C8_ExitStatus ==
  (entry = "main" /\ pc = "exited" /\ nLoad > 0) =>
    /\ exitStatus = 0 <=> (nParse = 1 /\ loadReturned /\ outputWritten /\ err = "none")
    /\ (nLoad > 0 /\ (~csv.exists \/ MissingColumn \/ HasBadRow)) => exitStatus # 0
    /\ (nRender > 0 /\ ~outputWritable) => exitStatus # 0

\* C9: a run of main parses, loads and renders at most once each and in
\* that order; render starts only after the load returned, a failed load
\* leaves no image, and nothing is tried again.
C9_StraightLine ==
  entry = "main" =>
    /\ nParse <= 1 /\ nLoad <= 1 /\ nRender <= 1
    /\ nLoad > 0 => nParse = 1
    /\ nRender > 0 => (nLoad = 1 /\ loadReturned /\ errIn # "load")
    /\ errIn = "load" => (nRender = 0 /\ ~outputWritten /\ ~loadReturned)
    /\ pc = "exited" => nParse = 1
    /\ errIn # "none" => pc \in {"raised", "exited"}

C9_Witness ==
  /\ entry = "main"
  /\ pc = "exited"
  /\ errIn = "load"
  /\ err = "TypeError"
  /\ i = 2
  /\ exitStatus = 1

\* C10: rendering an empty star sequence to a writable path raises nothing,
\* for every theme and either value of show_labels; it draws no marker and
\* no label and writes the image.
C10_EmptyRender ==
  (nRender > 0 /\ result = <<>> /\ outputWritable) =>
    /\ err = "none"
    /\ pc # "raised"
    /\ markers = <<>>
    /\ labels = <<>>
    /\ pc \in {"plot_close", "returned", "exited"} => outputWritten
    /\ pc \in {"returned", "exited"} => ~figHeld

C10_Witness ==
  /\ entry = "plot_sky"
  /\ result = <<>>
  /\ args = [theme |-> "neon", show_labels |-> TRUE]
  /\ outputWritable
  /\ pc = "returned"
  /\ outputWritten

====
